---- MODULE Spec2Model ----
(***************************************************************************)
(* A model of navis/core/core_utils.py: NeuronProcessor (batch apply of a  *)
(* function over a NeuronList, sequentially or through a process pool),    *)
(* to_neuron_space (unit conversion) and make_dotprops (k-NN dotprops).    *)
(*                                                                         *)
(* Python sequences are 0-based, TLA+ sequences 1-based: item i of the     *)
(* code is item i+1 here.                                                  *)
(***************************************************************************)
EXTENDS Integers, Sequences, FiniteSets, TLC

(***************************************************************************)
(* Bounds of the model.                                                    *)
(***************************************************************************)
\* largest number of neurons in the NeuronList handed to NeuronProcessor
MaxN == 2
\* largest number of rows of the coordinates handed to make_dotprops
MaxRows == 3

\* default of the constructor's `chunksize` parameter
DefaultChunksize == 1
\* default of the constructor's `n_cores` parameter, os.cpu_count() // 2,
\* on a machine of four cores
DefaultCores == 2

(***************************************************************************)
(* NeuronProcessor: state.                                                 *)
(***************************************************************************)
VARIABLES
    nl,            \* self.nl: the number of neurons of the list
    nlClass,       \* self.nl.__class__
    funcs,         \* self.funcs: one function per neuron
    function,      \* self.function
    selfParallel,  \* self.parallel (0 / 1)
    selfCores,     \* self.n_cores
    selfChunksize, \* self.chunksize
    poolProvider,  \* whether the module-level ProcessingPool was imported
    callArgs,      \* *args of the current __call__
    callKwargs,    \* **kwargs of the current __call__
    loggerLevel,   \* threshold of the global logger
    pc,            \* position of __call__
    level,         \* local `level`
    parsed_args,   \* local `parsed_args`
    parsed_kwargs, \* local `parsed_kwargs`
    chunksize,     \* local `chunksize` (parallel mode)
    n_cores,       \* local `n_cores`, the size of the pool
    dispatched,    \* pool: number of chunks handed to workers so far
    inflight,      \* pool: chunks a worker is running
    finished,      \* pool: the outcomes of the chunks, in the order the
                   \* workers completed them
    gathered,      \* pool: number of chunks the imap iterator has yielded
    res,           \* local `res`
    ret,           \* the returned value
    exc            \* the exception that left __call__, or "none"

npVars == <<nl, nlClass, funcs, function, selfParallel, selfCores,
            selfChunksize, poolProvider, callArgs, callKwargs, loggerLevel,
            pc, level, parsed_args, parsed_kwargs, chunksize, n_cores,
            dispatched, inflight, finished, gathered, res, ret, exc>>

(***************************************************************************)
(* make_dotprops: state.                                                   *)
(***************************************************************************)
VARIABLES
    dp_source,     \* argument `x`: its type and its rows of coordinates
    dp_k_arg,      \* argument `k`
    dp_resample,   \* whether argument `resample` is truthy
    dp_pc,         \* position of make_dotprops
    dp_x_raw,      \* local `x` on reaching line 132
    dp_x,          \* local `x`
    dp_k,          \* local `k` after line 139
    dp_ix,         \* local `ix`: per point, its nearest neighbours
    dp_ret,        \* the returned Dotprops
    dp_exc         \* the exception that left make_dotprops, or "none"

dpVars == <<dp_source, dp_k_arg, dp_resample, dp_pc, dp_x_raw, dp_x, dp_k,
            dp_ix, dp_ret, dp_exc>>

(***************************************************************************)
(* to_neuron_space: state.                                                 *)
(***************************************************************************)
VARIABLES
    ns_units,      \* argument `units`
    ns_neuron,     \* argument `neuron`
    ns_on_error,   \* argument `on_error`
    ns_pc,         \* position of to_neuron_space
    ns_ret,        \* the returned value
    ns_exc         \* the exception that left to_neuron_space, or "none"

nsVars == <<ns_units, ns_neuron, ns_on_error, ns_pc, ns_ret, ns_exc>>

vars == <<npVars, dpVars, nsVars>>

(***************************************************************************)
(* Values passed as arguments: a scalar, or a sequence of scalars.         *)
(***************************************************************************)
Scalar(v) == [kind |-> "scalar", elems |-> <<v>>]

SeqValue(n) == [kind |-> "seq", elems |-> [i \in 1..n |-> 10 * i]]

\* argument values a caller may pass: a scalar, and lists shorter than, as
\* long as and longer than the largest list of neurons
ArgValues ==
    {Scalar(7)} \cup {SeqValue(n) : n \in {m \in (MaxN - 1)..(MaxN + 1) : m >= 1}}

FunctionNames == {"f", "g"}

Levels == {"INFO", "WARNING"}

\* what one invocation of a function does: it returns a neuron, a list of
\* neurons, None or some other value, or it raises
ReturnKinds == {"neuron", "neuronlist", "none", "other"}

Outcomes == ReturnKinds \cup {"raise"}

\* utils.is_iterable: "is this a sequence distinct from a scalar"
is_iterable(a) == a.kind = "seq"

\* Python truthiness of an argument value
Truthy(a) == IF a.kind = "seq" THEN Len(a.elems) > 0 ELSE a.elems[1] # 0

\* dict.pop(name, default): the value ...
PopValue(kwargs, name, default) ==
    IF name \in DOMAIN kwargs THEN kwargs[name] ELSE default

\* ... and the dict that is left
PopRest(kwargs, name) == [k \in DOMAIN kwargs \ {name} |-> kwargs[k]]

\* kwargs after `parallel` and `n_cores` were popped
CallOptionsPopped(kwargs) == PopRest(PopRest(kwargs, "parallel"), "n_cores")

\* broadcasting that tests the length with < instead of !=
BroadcastAtLeast(a, i, n) ==
    IF ~is_iterable(a) \/ Len(a.elems) < n THEN a ELSE Scalar(a.elems[i])

\* lines 302-305 and 308-311: the value neuron i gets for argument a
Broadcast(a, i, n) ==
    IF ~is_iterable(a) \/ Len(a.elems) # n THEN a ELSE Scalar(a.elems[i])

ParseArgs(args, n) ==
    [i \in 1..n |-> [j \in 1..Len(args) |-> Broadcast(args[j], i, n)]]

ParseKwargs(kwargs, n) ==
    [i \in 1..n |-> [k \in DOMAIN kwargs |-> Broadcast(kwargs[k], i, n)]]

\* the value of func(*args, **kwargs) for work item i, when it returns `kind`
Invoke(func, args, kwargs, i, kind) ==
    [item |-> i, func |-> func, args |-> args, kwargs |-> kwargs,
     kind |-> kind]

\* _call: unpack one (func, args, kwargs) combination and run it
Call(x, i, kind) == Invoke(x[1], x[2], x[3], i, kind)

\* list(zip(self.funcs, parsed_args, parsed_kwargs))
Combinations(fs, pargs, pkwargs) ==
    [i \in 1..Len(fs) |-> <<fs[i], pargs[i], pkwargs[i]>>]

\* the function the sequential loop calls for neuron i
SequentialFunction(fn, fs, i) == fn

\* isinstance(r, (NeuronList, BaseNeuron))
IsNeuron(r) == r.kind \in {"neuron", "neuronlist"}

\* the neurons a result holds: a neuron is itself, a list its two members
NeuronsOf(r) ==
    IF r.kind = "neuron" THEN <<[item |-> r.item, part |-> 0]>>
    ELSE <<[item |-> r.item, part |-> 1], [item |-> r.item, part |-> 2]>>

\* utils.unpack_neurons: flatten neurons and lists of neurons into one list
RECURSIVE unpack_neurons(_)
unpack_neurons(rs) ==
    IF rs = <<>> THEN <<>>
    ELSE NeuronsOf(Head(rs)) \o unpack_neurons(Tail(rs))

NoneValue == [type |-> "None", class |-> "", neurons |-> <<>>, items |-> <<>>]

\* assembly without the all-None case of lines 357-358
AssembleKeepNone(rs, class) ==
    IF \A i \in 1..Len(rs) : IsNeuron(rs[i])
    THEN [type |-> "collection", class |-> class,
          neurons |-> unpack_neurons(rs), items |-> <<>>]
    ELSE [type |-> "list", class |-> "", neurons |-> <<>>, items |-> rs]

\* lines 352-360: what __call__ returns for the results `rs`
Assemble(rs, class) ==
    IF \A i \in 1..Len(rs) : IsNeuron(rs[i])
    THEN [type |-> "collection", class |-> class,
          neurons |-> unpack_neurons(rs), items |-> <<>>]
    ELSE IF \A i \in 1..Len(rs) : rs[i].kind = "none"
         THEN NoneValue
         ELSE [type |-> "list", class |-> "", neurons |-> <<>>, items |-> rs]

(***************************************************************************)
(* The pool: imap cuts the combinations into chunks of `chunksize`.        *)
(***************************************************************************)
NumChunks(n, cs) == (n + cs - 1) \div cs

ChunkItems(c, n, cs) ==
    {i \in 1..n : (c - 1) * cs < i /\ i <= c * cs}

\* whether a worker has completed chunk c, and with what
Completed(done, c) == \E k \in 1..Len(done) : done[k].chunk = c

OutcomeOf(done, c) == done[CHOOSE k \in 1..Len(done) : done[k].chunk = c]

\* imap_unordered: the iterator yields the chunks as the workers complete them
NextYieldAsCompleted(done, count) ==
    IF count < Len(done) THEN done[count + 1].chunk ELSE count + 1

\* imap: after `count` chunks the iterator yields chunk count + 1, whatever
\* the workers have completed
NextYield(done, count) == count + 1

(***************************************************************************)
(* make_dotprops: coordinates.  A coordinate is a finite number (an        *)
(* integer here, so that the arithmetic is exact), NaN or an infinity.     *)
(***************************************************************************)
Fin(v) == [cls |-> "finite", v |-> v]

NaN == [cls |-> "nan", v |-> 0]

PosInf == [cls |-> "posinf", v |-> 0]

NegInf == [cls |-> "neginf", v |-> 0]

\* the rows a caller may pass: three points that are not collinear, a row
\* with a NaN and rows with an infinity
PointPool ==
    {<<Fin(0), Fin(0), Fin(0)>>, <<Fin(1), Fin(0), Fin(0)>>,
     <<Fin(0), Fin(1), Fin(1)>>, <<Fin(0), NaN, Fin(1)>>,
     <<PosInf, Fin(0), Fin(0)>>, <<Fin(1), Fin(0), NegInf>>}

RowSeqs == UNION {[1..n -> PointPool] : n \in 0..MaxRows}

\* argument k: None, or an integer
NoneK == [none |-> TRUE, val |-> 0]

IntK(v) == [none |-> FALSE, val |-> v]

KArgs == {NoneK} \cup {IntK(v) : v \in (0 - 1)..(MaxRows + 1)}

\* the types of `x` whose rows matter, and those that fail before any row
\* is read: a table without x/y/z columns, an array that is not (N, 3), and
\* an object of an unsupported type
RowTypes == {"DataFrame", "ndarray", "TreeNeuron", "MeshNeuron"}

RowlessTypes == {"DataFrameNoXYZ", "ndarrayNot3", "other"}

\* np.isnan on a coordinate, and np.isfinite
IsNaN(c) == c.cls = "nan"

IsFinite(c) == c.cls = "finite"

\* np.all(np.isnan(x), axis=1) on one row
AllNaN(row) == \A a \in 1..3 : IsNaN(row[a])

\* np.any(np.isnan(x), axis=1) on one row
AnyNaN(row) == \E a \in 1..3 : IsNaN(row[a])

\* a mask that drops a row only when all of its columns are NaN
DropAllNaNRows(x) == SelectSeq(x, LAMBDA row : ~AllNaN(row))

\* line 133: x[~np.any(np.isnan(x), axis=1)]
DropNaRows(x) == SelectSeq(x, LAMBDA row : ~AnyNaN(row))

\* no min() with the number of points
RequestedK(n_points, k) == k

\* line 139: min(n_points, k)
EffectiveK(n_points, k) == IF n_points < k THEN n_points ELSE k

\* line 110 with < in place of <=
TreeShortcutNegative(k) == k.none \/ k.val < 0

\* line 110: isinstance(k, type(None)) or k <= 0
TreeShortcut(k) == k.none \/ k.val <= 0

\* line 128: isinstance(k, type(None)) or k <= 0
KInvalid(k) == k.none \/ k.val <= 0

\* the subsequences of a sequence of rows
RECURSIVE SubSeqs(_)
SubSeqs(rows) ==
    IF rows = <<>> THEN {<<>>}
    ELSE LET rest == SubSeqs(Tail(rows))
         IN rest \cup {<<Head(rows)>> \o r : r \in rest}

\* x.resample(...) of a TreeNeuron and trimesh's remove_close: the rows
\* that are left; resampling never adds a row here
Resampled(rows, resample) == IF resample THEN SubSeqs(rows) ELSE {rows}

\* graph.neuron2tangents: one point/vector/length per child -> parent edge;
\* node i + 1 is the child of node i
neuron2tangents(rows) == [e \in 1..(Len(rows) - 1) |-> <<e + 1, e>>]

AllFinite(x) == \A i \in 1..Len(x) : \A a \in 1..3 : IsFinite(x[i][a])

RECURSIVE SumOver(_, _)
SumOver(f, S) ==
    IF S = {} THEN 0
    ELSE LET e == CHOOSE e \in S : TRUE IN f[e] + SumOver(f, S \ {e})

\* squared Euclidean distance of rows i and j
Dist2(x, i, j) ==
    (x[i][1].v - x[j][1].v) * (x[i][1].v - x[j][1].v)
    + (x[i][2].v - x[j][2].v) * (x[i][2].v - x[j][2].v)
    + (x[i][3].v - x[j][3].v) * (x[i][3].v - x[j][3].v)

\* tree.query(x, k) for row i: any k rows none of which is farther from row
\* i than a row left out.  The order of the neighbours is not kept: mean
\* and inertia do not depend on it.
NearestSets(x, i, k) ==
    LET d == [j \in 1..Len(x) |-> Dist2(x, i, j)]
    IN {S \in SUBSET (1..Len(x)) :
           /\ Cardinality(S) = k
           /\ \A a \in S : \A b \in (1..Len(x)) \ S : d[a] <= d[b]}

\* tree.query(x, k) for the first n rows: a set of neighbours for each
RECURSIVE NearestTables(_, _, _)
NearestTables(x, k, n) ==
    IF n = 0 THEN {<<>>}
    ELSE {Append(t, S) : t \in NearestTables(x, k, n - 1),
                         S \in NearestSets(x, n, k)}

\* lines 148-157 for one row, without the division of the mean: with
\* k neighbours S, the offsets k * (pt - center) and the inertia k^2 * M
ColumnSums(x, S) ==
    <<SumOver([m \in S |-> x[m][1].v], S), SumOver([m \in S |-> x[m][2].v], S),
      SumOver([m \in S |-> x[m][3].v], S)>>

ScaledOffset(x, S, sums, j) ==
    <<Cardinality(S) * x[j][1].v - sums[1], Cardinality(S) * x[j][2].v - sums[2],
      Cardinality(S) * x[j][3].v - sums[3]>>

InertiaEntry(x, S, sums, a, b) ==
    SumOver([j \in S |-> ScaledOffset(x, S, sums, j)[a]
                           * ScaledOffset(x, S, sums, j)[b]], S)

ScaledInertia(x, S) ==
    LET sums == ColumnSums(x, S)
        m11 == InertiaEntry(x, S, sums, 1, 1)
        m12 == InertiaEntry(x, S, sums, 1, 2)
        m13 == InertiaEntry(x, S, sums, 1, 3)
        m22 == InertiaEntry(x, S, sums, 2, 2)
        m23 == InertiaEntry(x, S, sums, 2, 3)
        m33 == InertiaEntry(x, S, sums, 3, 3)
    IN <<<<m11, m12, m13>>, <<m12, m22, m23>>, <<m13, m23, m33>>>>

\* the singular values s of the symmetric positive semi-definite inertia M
\* are its eigenvalues, the roots of t^3 - c1 t^2 + c2 t - c3: c1 is their
\* sum, np.sum(s); with c3 = 0 (neighbours in a plane) s[2] = 0 and
\* (s[0] - s[1])^2 = c1^2 - 4 c2
Spectrum(M) ==
    [c1 |-> M[1][1] + M[2][2] + M[3][3],
     c2 |-> M[1][1] * M[2][2] - M[1][2] * M[2][1]
            + M[1][1] * M[3][3] - M[1][3] * M[3][1]
            + M[2][2] * M[3][3] - M[2][3] * M[3][2],
     c3 |-> M[1][1] * (M[2][2] * M[3][3] - M[2][3] * M[3][2])
            - M[1][2] * (M[2][1] * M[3][3] - M[2][3] * M[3][1])
            + M[1][3] * (M[2][1] * M[3][2] - M[2][2] * M[3][1])]

\* line 162: (s[0] - s[1]) / np.sum(s), kept as the spectrum it is computed
\* from; numpy's float division gives NaN for 0 / 0, and does not raise
AlphaOf(M) ==
    LET sp == Spectrum(M)
    IN [nan |-> sp.c1 = 0, c1 |-> sp.c1, c2 |-> sp.c2, c3 |-> sp.c3]

\* alpha is the number 0: defined, with s[0] = s[1]
AlphaIsZero(al) == ~al.nan /\ al.c3 = 0 /\ al.c1 * al.c1 = 4 * al.c2

NoDotprops ==
    [kind |-> "none", points |-> <<>>, edges |-> <<>>, alpha |-> <<>>,
     hasAlpha |-> FALSE, k |-> NoneK]

\* Dotprops(points=points, vect=vect, length=length, alpha=None, k=None)
EdgeDotprops(rows) ==
    [kind |-> "edges", points |-> <<>>, edges |-> neuron2tangents(rows),
     alpha |-> <<>>, hasAlpha |-> FALSE, k |-> NoneK]

\* Dotprops(points=x, alpha=alpha, vect=vect, k=k)
KnnDotprops(x, alpha, k) ==
    [kind |-> "knn", points |-> x, edges |-> <<>>, alpha |-> alpha,
     hasAlpha |-> TRUE, k |-> IntK(k)]

\* arithmetic on an infinity leaves no defined value
UndefinedAlpha == [nan |-> TRUE, c1 |-> 0, c2 |-> 0, c3 |-> 0]

(***************************************************************************)
(* make_dotprops: the arguments of a call.                                 *)
(***************************************************************************)
DPInit ==
    /\ \E type \in RowTypes \cup RowlessTypes :
          \E rows \in RowSeqs :
              /\ type \in RowlessTypes => rows = <<>>
              /\ dp_source = [type |-> type, rows |-> rows]
    /\ dp_k_arg \in KArgs
    /\ dp_resample \in BOOLEAN
    /\ dp_pc = "start"
    /\ dp_x_raw = <<>>
    /\ dp_x = <<>>
    /\ dp_k = 0
    /\ dp_ix = <<>>
    /\ dp_ret = NoDotprops
    /\ dp_exc = "none"

\* no call of make_dotprops
DPIdle ==
    /\ dp_source = [type |-> "other", rows |-> <<>>]
    /\ dp_k_arg = NoneK
    /\ dp_resample = FALSE
    /\ dp_pc = "idle"
    /\ dp_x_raw = <<>>
    /\ dp_x = <<>>
    /\ dp_k = 0
    /\ dp_ix = <<>>
    /\ dp_ret = NoDotprops
    /\ dp_exc = "none"

DPRaise(e) ==
    /\ dp_pc' = "raised"
    /\ dp_exc' = e
    /\ UNCHANGED <<dp_source, dp_k_arg, dp_resample, dp_x_raw, dp_x, dp_k,
                   dp_ix, dp_ret>>

\* lines 100-130: the dispatch on the type of x, the edges of a TreeNeuron
\* for k None or <= 0, and the checks of the shape and of k
Normalize ==
    /\ UNCHANGED <<npVars, nsVars>>
    /\ dp_pc = "start"
    /\ LET type == dp_source.type
       IN CASE type = "DataFrameNoXYZ" -> DPRaise("ValueError")
            [] type = "other" -> DPRaise("TypeError")
            [] type = "ndarrayNot3" -> DPRaise("ValueError")
            [] type = "TreeNeuron" /\ TreeShortcut(dp_k_arg) ->
                 \E rows \in Resampled(dp_source.rows, dp_resample) :
                     /\ dp_ret' = EdgeDotprops(rows)
                     /\ dp_pc' = "returned"
                     /\ UNCHANGED <<dp_source, dp_k_arg, dp_resample, dp_x_raw,
                                    dp_x, dp_k, dp_ix, dp_exc>>
            [] OTHER ->
                 IF KInvalid(dp_k_arg)
                 THEN DPRaise("ValueError")
                 ELSE \E rows \in Resampled(dp_source.rows,
                                            dp_resample /\ type \in {"TreeNeuron",
                                                                     "MeshNeuron"}) :
                         /\ dp_x_raw' = rows
                         /\ dp_x' = rows
                         /\ dp_pc' = "clean"
                         /\ UNCHANGED <<dp_source, dp_k_arg, dp_resample, dp_k,
                                        dp_ix, dp_ret, dp_exc>>

\* lines 132-141: drop the rows with NAs and cap k at the number of points
Clean ==
    /\ UNCHANGED <<npVars, nsVars>>
    /\ dp_pc = "clean"
    /\ dp_x' = DropNaRows(dp_x)
    /\ dp_k' = EffectiveK(Len(DropNaRows(dp_x)), dp_k_arg.val)
    /\ dp_pc' = "query"
    /\ UNCHANGED <<dp_source, dp_k_arg, dp_resample, dp_x_raw, dp_ix, dp_ret,
                   dp_exc>>

\* lines 144-145: the KD-tree and the query of k neighbours per point
Query ==
    /\ UNCHANGED <<npVars, nsVars>>
    /\ dp_pc = "query"
    /\ \/ /\ AllFinite(dp_x)
          /\ dp_k >= 1
          /\ dp_ix' \in NearestTables(dp_x, dp_k, Len(dp_x))
          /\ dp_pc' = "svd"
          /\ UNCHANGED <<dp_source, dp_k_arg, dp_resample, dp_x_raw, dp_x,
                         dp_k, dp_ret, dp_exc>>
       \* scipy refuses data that is not finite, or a query of no
       \* neighbours, in some versions ...
       \/ /\ ~AllFinite(dp_x) \/ dp_k = 0
          /\ DPRaise("ValueError")
       \* ... and goes on with them in others: no number computed from
       \* there on is defined
       \/ /\ ~AllFinite(dp_x) \/ dp_k = 0
          /\ dp_ix' = [i \in 1..Len(dp_x) |-> {}]
          /\ dp_pc' = "svd"
          /\ UNCHANGED <<dp_source, dp_k_arg, dp_resample, dp_x_raw, dp_x,
                         dp_k, dp_ret, dp_exc>>

\* lines 147-164: centers, inertia, SVD, alpha and the Dotprops
Svd ==
    /\ UNCHANGED <<npVars, nsVars>>
    /\ dp_pc = "svd"
    /\ IF dp_k = 1
       \* query(x, k=1) returns ix of shape (N,): centers has N elements, and
       \* the reshape to (N, 1, 3) of line 154 fails
       THEN DPRaise("ValueError")
       ELSE /\ dp_ret' =
                 KnnDotprops(dp_x,
                             [i \in 1..Len(dp_x) |->
                                 IF AllFinite(dp_x) /\ dp_k >= 1
                                 THEN AlphaOf(ScaledInertia(dp_x, dp_ix[i]))
                                 ELSE UndefinedAlpha],
                             dp_k)
            /\ dp_pc' = "returned"
            /\ UNCHANGED <<dp_source, dp_k_arg, dp_resample, dp_x_raw, dp_x,
                           dp_k, dp_ix, dp_exc>>

DPNext ==
    \/ Normalize
    \/ Clean
    \/ Query
    \/ Svd

(***************************************************************************)
(* to_neuron_space.  `units` is a number, a string that pint parses, a     *)
(* pint.Quantity or a pint.Unit; a string is held as the magnitude and the *)
(* unit its text spells ("1 nm": magnitude 1, unit "nm").                  *)
(***************************************************************************)
UnitNames == {"nm", "um", "dimensionless"}

\* nanometres per unit
NanometresPer(u) == IF u = "um" THEN 1000 ELSE 1

Number(m) == [type |-> "number", mag |-> m, unit |-> "none"]

UnitsArgs ==
    {Number(m) : m \in 0..2}
    \cup {[type |-> t, mag |-> m, unit |-> u] :
            t \in {"str", "Quantity"}, m \in 1..2, u \in UnitNames}
    \cup {[type |-> "Unit", mag |-> 1, unit |-> u] : u \in UnitNames}

\* neuron.units: a pint.Quantity
NeuronUnits ==
    {[mag |-> 1, unit |-> "dimensionless"], [mag |-> 1, unit |-> "nm"],
     [mag |-> 8, unit |-> "nm"], [mag |-> 1, unit |-> "um"]}

NeuronArgs ==
    {[isNeuron |-> TRUE, units |-> u] : u \in NeuronUnits}
    \cup {[isNeuron |-> FALSE, units |-> [mag |-> 1, unit |-> "dimensionless"]]}

OnErrorArgs == {"raise", "ignore", "warn"}

\* pint.Quantity(units) for a string
ParseQuantity(u) == [type |-> "Quantity", mag |-> u.mag, unit |-> u.unit]

\* lines 217-222: the value `units` holds after them
AsPint(u) == IF u.type = "str" THEN ParseQuantity(u) ELSE u

\* units.to(neuron.units).magnitude / neuron.units.magnitude, in thousandths
Converted(u, nu) ==
    (1000 * u.mag * NanometresPer(u.unit)) \div (nu.mag * NanometresPer(nu.unit))

\* utils.round_smart: a value that a few decimal digits spell is left as is
round_smart(milli) == milli

Float(milli) == [type |-> "float", mag |-> milli, unit |-> "none"]

NoReturn == [type |-> "nothing", mag |-> 0, unit |-> "none"]

\* what to_neuron_space does: the value it returns and the exception it
\* raises ("none": it returns)
Outcome(units, neuron, on_error) ==
    LET u == AsPint(units)
    IN CASE on_error \notin {"ignore", "raise"} ->
              [ret |-> NoReturn, exc |-> "ValueError"]
         [] ~neuron.isNeuron -> [ret |-> NoReturn, exc |-> "TypeError"]
         [] units.type = "number" -> [ret |-> units, exc |-> "none"]
         [] neuron.units.unit = "dimensionless" ->
              IF on_error = "raise"
              THEN [ret |-> NoReturn, exc |-> "ValueError"]
              ELSE [ret |-> u, exc |-> "none"]
         \* a pint.Unit has neither .magnitude nor .to
         [] u.type = "Unit" -> [ret |-> NoReturn, exc |-> "AttributeError"]
         [] u.unit = "dimensionless" -> [ret |-> Number(u.mag), exc |-> "none"]
         [] OTHER ->
              [ret |-> Float(round_smart(Converted(u, neuron.units))),
               exc |-> "none"]

NSInit ==
    /\ ns_units \in UnitsArgs
    /\ ns_neuron \in NeuronArgs
    /\ ns_on_error \in OnErrorArgs
    /\ ns_pc = "start"
    /\ ns_ret = NoReturn
    /\ ns_exc = "none"

\* no call of to_neuron_space
NSIdle ==
    /\ ns_units = Number(0)
    /\ ns_neuron = [isNeuron |-> FALSE,
                    units |-> [mag |-> 1, unit |-> "dimensionless"]]
    /\ ns_on_error = "raise"
    /\ ns_pc = "idle"
    /\ ns_ret = NoReturn
    /\ ns_exc = "none"

\* lines 213-245
ToNeuronSpace ==
    /\ ns_pc = "start"
    /\ LET o == Outcome(ns_units, ns_neuron, ns_on_error)
       IN /\ ns_ret' = o.ret
          /\ ns_exc' = o.exc
          /\ ns_pc' = IF o.exc = "none" THEN "returned" ELSE "raised"
    /\ UNCHANGED <<ns_units, ns_neuron, ns_on_error>>
    /\ UNCHANGED <<npVars, dpVars>>

NSNext == ToNeuronSpace

(***************************************************************************)
(* NeuronProcessor: the states after construction.                         *)
(***************************************************************************)
KwNames == {"parallel", "n_cores", "chunksize", "x"}

KwDomain(k) ==
    CASE k = "parallel" -> {Scalar(0), Scalar(1)}
      [] k = "n_cores" -> {Scalar(1)}
      [] k = "chunksize" -> {Scalar(c) : c \in 2..MaxN}
      [] OTHER -> {Scalar(7), SeqValue(MaxN)}

KwValues == UNION {KwDomain(k) : k \in KwNames}

KwargsOver(K) == {kw \in [K -> KwValues] : \A k \in K : kw[k] \in KwDomain(k)}

CallKwargsSet == UNION {KwargsOver(K) : K \in SUBSET KwNames}

CallArgsSet == {<<>>} \cup {<<a>> : a \in ArgValues}

NPInit ==
    /\ nl \in 0..MaxN
    /\ nlClass = "NeuronList"
    /\ \E list \in BOOLEAN :
          IF list
          THEN /\ nl >= 1
               /\ funcs \in [1..nl -> FunctionNames]
               /\ function = funcs[1]
          ELSE /\ function \in FunctionNames
               /\ funcs = [i \in 1..nl |-> function]
    /\ selfParallel \in {Scalar(0), Scalar(1)}
    /\ selfCores = Scalar(DefaultCores)
    /\ selfChunksize = Scalar(DefaultChunksize)
    /\ poolProvider \in BOOLEAN
    /\ callArgs \in CallArgsSet
    /\ callKwargs \in CallKwargsSet
    /\ loggerLevel \in Levels
    /\ pc = "idle"
    /\ level = "unset"
    /\ parsed_args = <<>>
    /\ parsed_kwargs = <<>>
    /\ chunksize = 0
    /\ n_cores = 0
    /\ dispatched = 0
    /\ inflight = {}
    /\ finished = <<>>
    /\ gathered = 0
    /\ res = <<>>
    /\ ret = NoneValue
    /\ exc = "none"

(***************************************************************************)
(* NeuronProcessor.__call__                                                *)
(***************************************************************************)
\* lines 289-315, common to every path: pop the options, broadcast the
\* arguments, save the logger's level and silence it
Prologue ==
    /\ pc = "idle"
    /\ parsed_args' = ParseArgs(callArgs, nl)
    /\ parsed_kwargs' = ParseKwargs(CallOptionsPopped(callKwargs), nl)
    /\ level' = loggerLevel
    /\ n_cores' = PopValue(callKwargs, "n_cores", selfCores).elems[1]

ParallelRequested == Truthy(PopValue(callKwargs, "parallel", selfParallel))

\* sequential mode, lines 341-360: the loop runs to its end or to the
\* first call that raises
CallSequential ==
    /\ Prologue
    /\ ~ParallelRequested
    /\ \E out \in [1..nl -> Outcomes] :
          LET rs == [i \in 1..nl |->
                        Invoke(SequentialFunction(function, funcs, i),
                               ParseArgs(callArgs, nl)[i],
                               ParseKwargs(CallOptionsPopped(callKwargs), nl)[i],
                               i, out[i])]
          IN IF \E i \in 1..nl : out[i] = "raise"
             THEN /\ pc' = "raised"
                  /\ exc' = "function"
                  /\ loggerLevel' = "WARNING"
                  /\ UNCHANGED <<res, ret>>
             ELSE /\ pc' = "returned"
                  /\ res' = rs
                  /\ loggerLevel' = level'
                  /\ ret' = Assemble(rs, nlClass)
                  /\ exc' = "none"
    /\ UNCHANGED <<dpVars, nsVars>>
    /\ UNCHANGED <<nl, nlClass, funcs, function, selfParallel, selfCores,
                   selfChunksize, poolProvider, callArgs, callKwargs,
                   chunksize, dispatched, inflight, finished, gathered>>

\* parallel mode without pathos, lines 318-322
CallNoPool ==
    /\ Prologue
    /\ ParallelRequested
    /\ ~poolProvider
    /\ loggerLevel' = "WARNING"
    /\ pc' = "raised"
    /\ exc' = "ImportError"
    /\ UNCHANGED <<dpVars, nsVars>>
    /\ UNCHANGED <<nl, nlClass, funcs, function, selfParallel, selfCores,
                   selfChunksize, poolProvider, callArgs, callKwargs,
                   chunksize, dispatched, inflight, finished, gathered,
                   res, ret>>

\* parallel mode, lines 328-335: open the pool and hand it the combinations
CallParallel ==
    /\ Prologue
    /\ ParallelRequested
    /\ poolProvider
    /\ loggerLevel' = "WARNING"
    /\ chunksize' = PopValue(callKwargs, "chunksize", selfChunksize).elems[1]
    /\ pc' = "pool"
    /\ UNCHANGED <<dpVars, nsVars>>
    /\ UNCHANGED <<nl, nlClass, funcs, function, selfParallel, selfCores,
                   selfChunksize, poolProvider, callArgs, callKwargs,
                   dispatched, inflight, finished, gathered, res, ret, exc>>

\* an idle worker takes the next chunk off the task queue
Dispatch ==
    /\ pc = "pool"
    /\ dispatched < NumChunks(nl, chunksize)
    /\ Cardinality(inflight) < n_cores
    /\ dispatched' = dispatched + 1
    /\ inflight' = inflight \cup {dispatched + 1}
    /\ UNCHANGED <<dpVars, nsVars>>
    /\ UNCHANGED <<nl, nlClass, funcs, function, selfParallel, selfCores,
                   selfChunksize, poolProvider, callArgs, callKwargs,
                   loggerLevel, pc, level, parsed_args, parsed_kwargs,
                   chunksize, n_cores, finished, gathered, res, ret, exc>>

\* a worker runs _call over its chunk; a call that raises fails the chunk
WorkerRun(c) ==
    /\ pc = "pool"
    /\ c \in inflight
    /\ \E out \in [ChunkItems(c, nl, chunksize) -> Outcomes] :
          LET combinations == Combinations(funcs, parsed_args, parsed_kwargs)
              done == IF \E i \in DOMAIN out : out[i] = "raise"
                      THEN [chunk |-> c, failed |-> TRUE, results |-> <<>>]
                      ELSE [chunk |-> c, failed |-> FALSE,
                            results |->
                              [i \in DOMAIN out |->
                                  Call(combinations[i], i, out[i])]]
          IN finished' = Append(finished, done)
    /\ inflight' = inflight \ {c}
    /\ UNCHANGED <<dpVars, nsVars>>
    /\ UNCHANGED <<nl, nlClass, funcs, function, selfParallel, selfCores,
                   selfChunksize, poolProvider, callArgs, callKwargs,
                   loggerLevel, pc, level, parsed_args, parsed_kwargs,
                   chunksize, n_cores, dispatched, gathered, res, ret, exc>>

\* list(pool.imap(...)) takes the next chunk's results, or its exception
Gather ==
    /\ pc = "pool"
    /\ gathered < NumChunks(nl, chunksize)
    /\ LET c == NextYield(finished, gathered)
           yielded == OutcomeOf(finished, c)
       IN /\ Completed(finished, c)
          /\ IF yielded.failed
             THEN /\ pc' = "raised"
                  /\ exc' = "worker"
                  /\ inflight' = {}
                  /\ UNCHANGED <<res, gathered>>
             ELSE /\ res' = res \o
                       [j \in 1..Cardinality(DOMAIN yielded.results) |->
                           yielded.results[(c - 1) * chunksize + j]]
                  /\ gathered' = gathered + 1
                  /\ UNCHANGED <<pc, exc, inflight>>
    /\ UNCHANGED <<dpVars, nsVars>>
    /\ UNCHANGED <<nl, nlClass, funcs, function, selfParallel, selfCores,
                   selfChunksize, poolProvider, callArgs, callKwargs,
                   loggerLevel, level, parsed_args, parsed_kwargs,
                   chunksize, n_cores, dispatched, finished, ret>>

\* lines 349-360 after the pool: reset the logger and assemble the results
Finish ==
    /\ pc = "pool"
    /\ gathered = NumChunks(nl, chunksize)
    /\ loggerLevel' = level
    /\ ret' = Assemble(res, nlClass)
    /\ pc' = "returned"
    /\ UNCHANGED <<dpVars, nsVars>>
    /\ UNCHANGED <<nl, nlClass, funcs, function, selfParallel, selfCores,
                   selfChunksize, poolProvider, callArgs, callKwargs,
                   level, parsed_args, parsed_kwargs, chunksize, n_cores,
                   dispatched, inflight, finished, gathered, res, exc>>

NPNext ==
    \/ CallSequential
    \/ CallNoPool
    \/ CallParallel
    \/ Dispatch
    \/ \E c \in 1..MaxN : WorkerRun(c)
    \/ Gather
    \/ Finish

\* no NeuronProcessor
NPIdle ==
    /\ nl = 0
    /\ nlClass = "NeuronList"
    /\ funcs = <<>>
    /\ function = "f"
    /\ selfParallel = Scalar(0)
    /\ selfCores = Scalar(DefaultCores)
    /\ selfChunksize = Scalar(DefaultChunksize)
    /\ poolProvider = FALSE
    /\ callArgs = <<>>
    /\ callKwargs = <<>>
    /\ loggerLevel = "INFO"
    /\ pc = "none"
    /\ level = "unset"
    /\ parsed_args = <<>>
    /\ parsed_kwargs = <<>>
    /\ chunksize = 0
    /\ n_cores = 0
    /\ dispatched = 0
    /\ inflight = {}
    /\ finished = <<>>
    /\ gathered = 0
    /\ res = <<>>
    /\ ret = NoneValue
    /\ exc = "none"

\* a NeuronProcessor about to be called
Init == NPInit /\ DPIdle /\ NSIdle

Spec == Init /\ [][NPNext]_vars

\* make_dotprops about to be called
InitDotprops == DPInit /\ NPIdle /\ NSIdle

SpecDotprops == InitDotprops /\ [][DPNext]_vars

\* to_neuron_space about to be called
InitUnits == NSInit /\ NPIdle /\ DPIdle

SpecUnits == InitUnits /\ [][NSNext]_vars

(***************************************************************************)
(* NeuronProcessor: properties.                                            *)
(***************************************************************************)
CallEnded == pc \in {"returned", "raised"}

\* C1: when __call__ has ended, by a return or by any exception, the global
\* logger's threshold is the one it had immediately before the call.
C1_LevelRestored == CallEnded => loggerLevel = level

\* C2: with a list of functions, the result at position i was produced by
\* funcs[i] with neuron i's resolved arguments, in sequential mode as well
\* as in parallel mode.
C2_OwnFunction ==
    pc = "returned" =>
        /\ Len(res) = nl
        /\ \A i \in 1..nl :
              /\ res[i].func = funcs[i]
              /\ res[i].args = parsed_args[i]
              /\ res[i].kwargs = parsed_kwargs[i]

\* C3: in parallel mode, whatever the order in which the workers complete
\* and whatever the chunk size, position i of the gathered results holds the
\* result of work item i (its function, args and kwargs); so the order of
\* the results is the order of the sequential mode, item i at position i.
C3_InputOrder ==
    /\ pc \in {"pool", "returned"} =>
          \A i \in 1..Len(res) :
              /\ res[i].item = i
              /\ ParallelRequested =>
                    /\ res[i].func = funcs[i]
                    /\ res[i].args = parsed_args[i]
                    /\ res[i].kwargs = parsed_kwargs[i]
    /\ pc = "returned" => Len(res) = nl

\* a parallel call has returned although the worker of the second chunk
\* completed before the worker of the first
C3_Witness ==
    /\ pc = "returned"
    /\ ParallelRequested
    /\ Len(finished) >= 2
    /\ finished[1].chunk = 2
    /\ finished[2].chunk = 1
    /\ res[1].item = 1

\* the value the claim gives neuron i for the call-time argument a
Distributed(a, i) ==
    IF a.kind = "seq" /\ Len(a.elems) = nl THEN Scalar(a.elems[i]) ELSE a

\* every invocation so far was made with its neuron's resolved arguments
ReceivedResolved ==
    \A j \in 1..Len(res) :
        /\ res[j].args = parsed_args[res[j].item]
        /\ res[j].kwargs = parsed_kwargs[res[j].item]

PositionalDistributed ==
    \A i \in 1..nl :
        /\ Len(parsed_args[i]) = Len(callArgs)
        /\ \A j \in 1..Len(callArgs) :
              parsed_args[i][j] = Distributed(callArgs[j], i)

KeywordsDistributed(names) ==
    \A i \in 1..nl :
        /\ DOMAIN parsed_kwargs[i] = names
        /\ \A k \in names : parsed_kwargs[i][k] = Distributed(callKwargs[k], i)

\* C4 (as stated): every positional and every keyword argument of the call
\* reaches neuron i as a[i] when a is a sequence of length N and as a itself
\* otherwise, with the same positions and keyword names for every neuron.
C4_Broadcast ==
    pc # "idle" =>
        /\ PositionalDistributed
        /\ KeywordsDistributed(DOMAIN callKwargs)
        /\ ReceivedResolved

\* C4 (amended): the same, for every keyword argument other than `parallel`
\* and `n_cores`, which __call__ consumes and passes to no neuron.
C4_BroadcastAmended ==
    pc # "idle" =>
        /\ PositionalDistributed
        /\ KeywordsDistributed(DOMAIN callKwargs \ {"parallel", "n_cores"})
        /\ ReceivedResolved

\* a call over two or more neurons has returned that was given a list of
\* length N, a keyword scalar and the `parallel` option
C4_Witness ==
    /\ pc = "returned"
    /\ nl >= 2
    /\ Len(callArgs) = 1
    /\ callArgs[1] = SeqValue(nl)
    /\ {"parallel", "x"} \subseteq DOMAIN callKwargs
    /\ callKwargs["x"] = Scalar(7)
    /\ res[2].args = <<Scalar(20)>>
    /\ res[2].kwargs["x"] = Scalar(7)

\* the place of a neuron in the flattened results
FlatPosition(x) == 3 * x.item + x.part

\* C5: the value returned for the results res: all neurons or collections
\* of neurons: one collection of the input's class holding their neurons,
\* flattened, in input order; otherwise all None: None itself; otherwise the
\* list of results unchanged.
C5_Assembly ==
    pc = "returned" =>
        IF \A i \in 1..Len(res) : res[i].kind \in {"neuron", "neuronlist"}
        THEN /\ ret.type = "collection"
             /\ ret.class = nlClass
             /\ \A a, b \in 1..Len(ret.neurons) :
                   a < b => FlatPosition(ret.neurons[a]) < FlatPosition(ret.neurons[b])
             /\ {ret.neurons[a] : a \in 1..Len(ret.neurons)}
                   = UNION {{NeuronsOf(res[i])[m] : m \in 1..Len(NeuronsOf(res[i]))}
                              : i \in 1..Len(res)}
        ELSE IF \A i \in 1..Len(res) : res[i].kind = "none"
             THEN ret.type = "None"
             ELSE ret.type = "list" /\ ret.items = res

\* a call has returned None for two or more results that are all None
C5_Witness ==
    /\ pc = "returned"
    /\ nl >= 2
    /\ \A i \in 1..nl : res[i].kind = "none"
    /\ ret.type = "None"

(***************************************************************************)
(* to_neuron_space: properties.                                            *)
(***************************************************************************)
\* C6: against a neuron whose units are dimensionless, for a unit string, a
\* quantity or a unit: on_error "raise" fails with a ValueError and returns
\* nothing; on_error "ignore" returns the very value that was passed in.
C6_DimensionlessTarget ==
    (/\ ns_pc \in {"returned", "raised"}
     /\ ns_neuron.isNeuron
     /\ ns_neuron.units.unit = "dimensionless"
     /\ ns_units.type \in {"str", "Quantity", "Unit"}) =>
        /\ ns_on_error = "raise" =>
              ns_pc = "raised" /\ ns_exc = "ValueError" /\ ns_ret = NoReturn
        /\ ns_on_error = "ignore" =>
              ns_pc = "returned" /\ ns_ret = ns_units

(***************************************************************************)
(* make_dotprops: properties.                                              *)
(***************************************************************************)
\* the query of the neighbours has run, on finite points
Queried ==
    /\ dp_pc \in {"svd", "returned", "raised"}
    /\ Len(dp_x) >= 1
    /\ Len(dp_ix) = Len(dp_x)
    /\ \A i \in 1..Len(dp_ix) : dp_ix[i] # {}

\* the neighbours of point i all have the same coordinates
Degenerate(i) == \A a, b \in dp_ix[i] : dp_x[a] = dp_x[b]

\* C7: on the k-NN path, for every point whose neighbours all have the same
\* coordinates (every point, when k_eff = 1) the call does not raise and
\* the point's alpha is exactly 0, never NaN.
C7_DegenerateAlphaZero ==
    (Queried /\ dp_pc # "svd") =>
        \A i \in 1..Len(dp_x) :
            Degenerate(i) =>
                /\ dp_pc = "returned"
                /\ AlphaIsZero(dp_ret.alpha[i])

\* the rows with NAs have been dropped
Cleaned ==
    \/ dp_pc \in {"query", "svd"}
    \/ dp_pc = "returned" /\ dp_ret.kind = "knn"

HasNaN(row) == \E a \in 1..3 : row[a].cls = "nan"

NonFinite(row) == \E a \in 1..3 : row[a].cls # "finite"

\* x holds the rows of raw that are not in `dropped`, in their order
KeptInOrder(x, raw, dropped) ==
    LET keep == (1..Len(raw)) \ dropped
    IN /\ Len(x) = Cardinality(keep)
       /\ \A i \in keep : x[Cardinality({j \in keep : j <= i})] = raw[i]

\* C8 (as stated): every row with a NaN or an infinity in one of its columns
\* is dropped before the query and every other row is kept, in order; the
\* points of the Dotprops hold no such value.
C8_NonFiniteRowsDropped ==
    Cleaned =>
        /\ KeptInOrder(dp_x, dp_x_raw,
                       {i \in 1..Len(dp_x_raw) : NonFinite(dp_x_raw[i])})
        /\ dp_pc = "returned" =>
              \A i \in 1..Len(dp_ret.points) : ~NonFinite(dp_ret.points[i])

\* C8 (amended): every row with a NaN in one of its columns is dropped
\* before the query and every other row, the rows with an infinity too, is
\* kept, in order; the points of the Dotprops hold no NaN.
C8_NaNRowsDropped ==
    Cleaned =>
        /\ KeptInOrder(dp_x, dp_x_raw,
                       {i \in 1..Len(dp_x_raw) : HasNaN(dp_x_raw[i])})
        /\ dp_pc = "returned" =>
              /\ dp_ret.points = dp_x
              /\ \A i \in 1..Len(dp_ret.points) : ~HasNaN(dp_ret.points[i])

\* a Dotprops of two or more points was returned for coordinates with a
\* row that holds a NaN
C8_Witness ==
    /\ dp_pc = "returned"
    /\ dp_ret.kind = "knn"
    /\ Len(dp_ret.points) >= 2
    /\ \E i \in 1..Len(dp_x_raw) : HasNaN(dp_x_raw[i])
    /\ HasNaN(dp_x_raw[1])

\* C9: with k None or <= 0 the k-NN/SVD pipeline never runs: a TreeNeuron
\* gives at once a Dotprops of its edges with alpha = None and k = None, and
\* a table, an array or a mesh fails with a ValueError and gives nothing.
C9_NoKnnWithoutK ==
    (dp_pc # "idle" /\ (dp_k_arg.none \/ dp_k_arg.val <= 0)) =>
        /\ dp_pc \in {"start", "returned", "raised"}
        /\ dp_ix = <<>>
        /\ dp_ret.kind # "knn"
        /\ (dp_pc # "start" /\ dp_source.type = "TreeNeuron") =>
              /\ dp_pc = "returned"
              /\ dp_ret.kind = "edges"
              /\ ~dp_ret.hasAlpha
              /\ dp_ret.k = NoneK
        /\ (dp_pc # "start"
            /\ dp_source.type \in {"DataFrame", "ndarray", "MeshNeuron"}) =>
              /\ dp_pc = "raised"
              /\ dp_exc = "ValueError"
              /\ dp_ret = NoDotprops

\* a TreeNeuron of two or more nodes gave its edges for k = 0
C9_Witness ==
    /\ dp_pc = "returned"
    /\ dp_source.type = "TreeNeuron"
    /\ dp_k_arg = IntK(0)
    /\ Len(dp_source.rows) >= 2
    /\ dp_ret.kind = "edges"
    /\ Len(dp_ret.edges) >= 1

Min(a, b) == IF a <= b THEN a ELSE b

\* the number of neighbours the query asks for is min(k, n), and n when
\* n >= 1 rows are fewer than k; never more than there are points
QueriesMin(n) ==
    /\ dp_k = Min(dp_k_arg.val, n)
    /\ dp_k <= Len(dp_x)
    /\ (n >= 1 /\ dp_k_arg.val > n) => dp_k = n

\* C10 (as stated): the query asks for k_eff = min(k, N) neighbours, N the
\* number of rows left once the rows with a NaN or an infinity are dropped.
C10_EffectiveK ==
    Cleaned =>
        QueriesMin(Cardinality({i \in 1..Len(dp_x_raw) : ~NonFinite(dp_x_raw[i])}))

\* C10 (amended): the query asks for k_eff = min(k, N) neighbours, N the
\* number of rows left once the rows with a NaN are dropped (a row with an
\* infinity is left and counts).
C10_EffectiveKAmended ==
    Cleaned =>
        QueriesMin(Cardinality({i \in 1..Len(dp_x_raw) : ~HasNaN(dp_x_raw[i])}))

\* the query has run for two or more points, fewer than the k asked for,
\* and gave every point all the points as its neighbours
C10_Witness ==
    /\ dp_pc = "svd"
    /\ Len(dp_x) >= 2
    /\ dp_k_arg.val > Len(dp_x)
    /\ dp_k = Len(dp_x)
    /\ \A i \in 1..Len(dp_x) : dp_ix[i] = 1..Len(dp_x)

====
